---- MODULE Spec2Model ----
(***************************************************************************)
(* Model of .github/actions/clean_up_package_registry/                     *)
(* clean_up_package_registry.py: the retention/cleanup procedure for the   *)
(* container package registry.  One run of the script is one behaviour:    *)
(* module start-up (environment parsing), the decision phase (probe, page  *)
(* walk, per-image decision, layer exclusion) and the execution phase      *)
(* (delete requests), ending in a normal exit or a fatal one.              *)
(*                                                                         *)
(* Strings that the code inspects character by character (tags, the        *)
(* package list, the keep input) are sequences of one-character strings.   *)
(***************************************************************************)
EXTENDS Integers, Sequences, FiniteSets, TLC

VARIABLES
    env,                \* os.environ: INPUT_DRY_RUN, INPUT_KEEP, INPUT_PACKAGES
    registry,           \* upstream registry content, fixed during a run
    pc,                 \* position of the single thread of control
    packages,           \* module global, line 47
    keep,               \* module global, line 48
    dry_run,            \* module global, line 36
    urls_to_be_deleted, \* module global, line 60
    exclusion_list,     \* module global, line 63
    packages_deleted,   \* local of delete_packages, line 162
    pkg_idx,            \* position of "for package in packages", line 164
    page,               \* loop variable of line 172
    candidates,         \* the list iterated by line 197
    img_idx,            \* position in candidates
    del_idx,            \* position of "for url in urls_to_be_deleted", line 227
    net,                \* every HTTP request issued so far, with its answer
    exit_code,          \* process exit status, NoExit while running
    stdout_count,       \* the count printed by line 243, NoCount before
    call_args,          \* argument of a function applied on its own
    call_ret,           \* its result
    first_run           \* what an earlier run over the same upstream computed

vars == <<env, registry, pc, packages, keep, dry_run, urls_to_be_deleted,
          exclusion_list, packages_deleted, pkg_idx, page, candidates,
          img_idx, del_idx, net, exit_code, stdout_count, call_args, call_ret,
          first_run>>

-----------------------------------------------------------------------------
(* Bounds of the model *)

MaxId == 3
MaxPages == 2
MaxKeep == 1
MaxTags == 2

NoExit == 0 - 1    \* no exit status yet
NoCount == 0 - 1   \* nothing printed yet

-----------------------------------------------------------------------------
(* Character strings *)

Digits == {"0", "1", "2", "3", "4", "5", "6", "7", "8", "9"}

\* Python's "sub in s" on strings
In(sub, s) ==
    \E i \in 0..(Len(s) - Len(sub)) : SubSeq(s, i + 1, i + Len(sub)) = sub

\* index just after the longest run of \d characters of s that starts at i
RECURSIVE DigitRunEnd(_, _)
DigitRunEnd(s, i) ==
    IF i <= Len(s) /\ s[i] \in Digits THEN DigitRunEnd(s, i + 1) ELSE i

\* re.compile(r"^\d+\.\d+\.\d+$").match(tag): "$" also matches just before a
\* final newline
PatternMatch(tag) ==
    LET a == DigitRunEnd(tag, 1)
        b == DigitRunEnd(tag, a + 1)
        c == DigitRunEnd(tag, b + 1)
    IN  /\ a > 1
        /\ a <= Len(tag) /\ tag[a] = "."
        /\ b > a + 1
        /\ b <= Len(tag) /\ tag[b] = "."
        /\ c > b + 1
        /\ \/ c = Len(tag) + 1
           \/ c = Len(tag) /\ tag[c] = "\n"

LATEST == <<"l", "a", "t", "e", "s", "t">>
DOT_SHA_DOT == <<".", "s", "h", "a", ".">>
SNAPSHOT == <<"S", "N", "A", "P", "S", "H", "O", "T">>

restrict_delete_tags_NoSnapshotRule(tags) ==
    LET RECURSIVE Scan(_)
        Scan(i) ==
            IF i > Len(tags) THEN FALSE
            ELSE IF tags[i] = LATEST THEN TRUE
            ELSE IF In(DOT_SHA_DOT, tags[i]) THEN FALSE
            ELSE IF PatternMatch(tags[i]) THEN TRUE
            ELSE Scan(i + 1)
    IN  IF tags = << >> THEN FALSE ELSE Scan(1)

restrict_delete_tags(tags) ==
    LET RECURSIVE Scan(_)
        Scan(i) ==
            IF i > Len(tags) THEN FALSE
            ELSE IF tags[i] = LATEST THEN TRUE
            ELSE IF In(DOT_SHA_DOT, tags[i]) THEN FALSE
            ELSE IF In(SNAPSHOT, tags[i]) THEN FALSE
            ELSE IF PatternMatch(tags[i]) THEN TRUE
            ELSE Scan(i + 1)
    IN  IF tags = << >> THEN FALSE ELSE Scan(1)

-----------------------------------------------------------------------------
(* Start-up: lines 36-48 *)

\* os.getenv: << >> is None, <<s>> is the string s
Absent == << >>
Present(s) == <<s>>

DEMO == <<"d", "e", "m", "o">>
LIB == <<"l", "i", "b">>
COMMA == <<",">>

\* str.split(","): the pieces between the commas, empty pieces included
RECURSIVE split(_, _)
split(s, sep) ==
    LET RECURSIVE FirstSep(_)
        FirstSep(i) ==
            IF i > Len(s) THEN 0
            ELSE IF s[i] = sep THEN i
            ELSE FirstSep(i + 1)
        k == FirstSep(1)
    IN  IF k = 0 THEN <<s>>
        ELSE <<SubSeq(s, 1, k - 1)>> \o split(SubSeq(s, k + 1, Len(s)), sep)

DigitValue(ch) ==
    CASE ch = "0" -> 0 [] ch = "1" -> 1 [] ch = "2" -> 2 [] ch = "3" -> 3
      [] ch = "4" -> 4 [] ch = "5" -> 5 [] ch = "6" -> 6 [] ch = "7" -> 7
      [] ch = "8" -> 8 [] ch = "9" -> 9

\* int(s) for a string of decimal digits
RECURSIVE int(_)
int(s) ==
    IF Len(s) = 1 THEN DigitValue(s[1])
    ELSE 10 * int(SubSeq(s, 1, Len(s) - 1)) + DigitValue(s[Len(s)])

ParseDryRun_FalseUnlessTrue(v) == IF v = Present("true") THEN TRUE ELSE FALSE

\* line 36
ParseDryRun(v) == IF v = Present("false") THEN FALSE ELSE TRUE

\* line 48: "if input_keep" is false for None and for ""
ParseKeep(v) == IF v # Absent /\ v[1] # << >> THEN int(v[1]) ELSE 0

NoPackagesInput_OnlyNone(v) == v = Absent

DeleteIsSkipped_Never(status) == FALSE

\* line 43: "not input_packages" is true for None and for ""
NoPackagesInput(v) == v = Absent \/ v[1] = << >>

\* line 47
ParsePackages(v) == split(v[1], ",")

DecimalString(n) ==
    <<CASE n = 0 -> "0" [] n = 1 -> "1" [] n = 2 -> "2" [] n = 3 -> "3"
        [] n = 4 -> "4" [] n = 5 -> "5" [] n = 6 -> "6" [] n = 7 -> "7"
        [] n = 8 -> "8" [] n = 9 -> "9">>

\* the environments of the runs of the cleanup procedure
RunEnvs ==
    [INPUT_DRY_RUN : {Absent, Present("false")},
     INPUT_KEEP : {Absent} \cup {Present(DecimalString(k)) : k \in 1..MaxKeep},
     INPUT_PACKAGES : {Absent,
                       Present(<< >>),
                       Present(DEMO),
                       Present(DEMO \o COMMA \o LIB),
                       Present(DEMO \o COMMA \o DEMO)}]

-----------------------------------------------------------------------------
(* The upstream registry *)

SEMVER_1_2_3 == <<"1", ".", "2", ".", "3">>

\* tag lists carried by the versions of a run
VersionTagLists == {<< >>, <<LATEST>>, <<SEMVER_1_2_3>>}

Ids == 1..MaxId
PageNumbers == 1..MaxPages

\* tags: the tag list of each version identifier;
\* pages: the listing page each version is on (0: the version does not exist)
Registries ==
    [tags : [Ids -> VersionTagLists], pages : [Ids -> 0..MaxPages]]

PageIds(p) == {id \in Ids : registry.pages[id] = p}

Image(id) == [id |-> id, tags |-> registry.tags[id]]

\* the bodies a 200 listing of page p can carry: the page's versions in any order
RECURSIVE Orderings(_)
Orderings(S) ==
    IF S = {} THEN {<< >>}
    ELSE UNION {{<<Image(x)>> \o rest : rest \in Orderings(S \ {x})} : x \in S}

\* number of the last listing page
LastPageNumber ==
    IF \E p \in PageNumbers : PageIds(p) # {}
    THEN CHOOSE p \in PageNumbers :
            /\ PageIds(p) # {}
            /\ \A q \in PageNumbers : PageIds(q) # {} => q <= p
    ELSE 1

\* response headers of the HEAD probe: with a single page no link header, or
\* one without rel="last"; otherwise next and last links, where the last page
\* announced may lie beyond the last page that still holds versions
ProbeHeaders ==
    (IF LastPageNumber = 1
     THEN {[has_link |-> FALSE, link |-> << >>],
           [has_link |-> TRUE, link |-> <<[rel |-> "first", page |-> 1]>>]}
     ELSE {}) \cup
    {[has_link |-> TRUE,
      link |-> <<[rel |-> "next", page |-> 2], [rel |-> "last", page |-> p]>>] :
        p \in {q \in PageNumbers : q > 1 /\ q >= LastPageNumber}}

get_last_page_IgnoresLink(headers) == IF headers.has_link THEN 1 ELSE 1

\* lines 66-94
get_last_page(headers) ==
    IF ~headers.has_link THEN 1
    ELSE LET links == headers.link
             lasts == {i \in 1..Len(links) : links[i].rel = "last"}
         IN  IF lasts # {}
             THEN links[CHOOSE i \in lasts : \A j \in lasts : i <= j].page
             ELSE 1

\* https://ghcr.io/v2/{org}/{package}/manifests/{tag}: the image index of a
\* tagged image, one manifest per platform and one attestation manifest
\* that carries no platform
ManifestDigest(package, tag, arch) == <<"manifest", package, tag, arch>>

ImageIndex(package, tag) ==
    [has_manifests |-> TRUE,
     manifests |->
        <<[has_platform |-> TRUE, architecture |-> "amd64",
           digest |-> ManifestDigest(package, tag, "amd64")],
          [has_platform |-> TRUE, architecture |-> "s390x",
           digest |-> ManifestDigest(package, tag, "s390x")],
          [has_platform |-> TRUE, architecture |-> "arm64",
           digest |-> ManifestDigest(package, tag, "arm64")],
          [has_platform |-> FALSE, architecture |-> "unknown",
           digest |-> ManifestDigest(package, tag, "attestation")]>>]

\* https://ghcr.io/v2/{org}/{package}/manifests/{digest}: one layer per
\* architecture-specific manifest; the arm64 manifest of package "lib" is
\* answered by a document without a "layers" key
LayerManifest(digest) ==
    IF digest[2] = LIB /\ digest[4] = "arm64"
    THEN [has_layers |-> FALSE, layers |-> << >>]
    ELSE [has_layers |-> TRUE,
          layers |-> <<[digest |-> <<"layer", digest[2], digest[3], digest[4]>>]>>]

-----------------------------------------------------------------------------
(* delete_packages and its helpers *)

\* line 198: the version's deletion URL
VersionUrl(package, id) == <<"versions", package, id>>

\* lines 166 and 174: the URL of a listing page
ListUrl(package, pg) == <<"versions?page", package, pg>>

\* sorted(..., key=lambda x: x["id"], reverse=True), line 193: a stable sort
RECURSIVE sorted(_)
sorted(images) ==
    LET RECURSIVE Insert(_, _)
        Insert(x, s) ==
            IF s = << >> THEN <<x>>
            ELSE IF x.id >= s[1].id THEN <<x>> \o s
            ELSE <<s[1]>> \o Insert(x, Tail(s))
    IN  IF images = << >> THEN << >>
        ELSE Insert(images[Len(images)], sorted(SubSeq(images, 1, Len(images) - 1)))

ImagesToVisit_NoneInDryRun(images, pg, k) ==
    IF dry_run \/ Len(images) <= k THEN << >>
    ELSE IF pg # 1 THEN images ELSE SubSeq(images, k + 2, Len(images))

ImagesToVisit_AllOfOtherPages(images, pg, k) ==
    IF pg # 1 THEN images
    ELSE IF Len(images) > k THEN SubSeq(images, k + 2, Len(images)) ELSE << >>

ImagesToVisit_KeepSlice(images, pg, k) ==
    IF Len(images) > k
    THEN IF pg # 1 THEN images ELSE SubSeq(images, k + 1, Len(images))
    ELSE << >>

\* lines 196-197: the images the for loop visits on page pg
ImagesToVisit(images, pg, k) ==
    IF Len(images) > k
    THEN IF pg # 1 THEN images ELSE SubSeq(images, k + 2, Len(images))
    ELSE << >>

SkipTagged_Never(tags) == FALSE

\* line 201: whether the visited image is skipped instead of enqueued
SkipTagged(tags) == restrict_delete_tags(tags)

\* lines 118-122
MainManifest(status, body) ==
    IF status = 200 THEN body ELSE [has_manifests |-> FALSE, manifests |-> << >>]

RECURSIVE LayerDigests_EveryPlatform(_)
LayerDigests_EveryPlatform(manifests) ==
    IF manifests = << >> THEN << >>
    ELSE LET manifest == manifests[1]
             layer_manifest == LayerManifest(manifest.digest)
             here ==
                IF manifest.has_platform /\ layer_manifest.has_layers
                THEN [i \in 1..Len(layer_manifest.layers) |->
                        layer_manifest.layers[i].digest]
                ELSE << >>
         IN  here \o LayerDigests_EveryPlatform(Tail(manifests))

RECURSIVE LayerDigests_Amd64Only(_)
LayerDigests_Amd64Only(manifests) ==
    IF manifests = << >> THEN << >>
    ELSE LET manifest == manifests[1]
             layer_manifest == LayerManifest(manifest.digest)
             here ==
                IF /\ manifest.has_platform
                   /\ manifest.architecture = "amd64"
                   /\ layer_manifest.has_layers
                THEN [i \in 1..Len(layer_manifest.layers) |->
                        layer_manifest.layers[i].digest]
                ELSE << >>
         IN  here \o LayerDigests_Amd64Only(Tail(manifests))

\* lines 124-141: the digests get_package_layers appends for an index
RECURSIVE LayerDigests(_)
LayerDigests(manifests) ==
    IF manifests = << >> THEN << >>
    ELSE LET manifest == manifests[1]
             layer_manifest == LayerManifest(manifest.digest)
             here ==
                IF /\ manifest.has_platform
                   /\ manifest.architecture \in {"amd64", "arm64"}
                   /\ layer_manifest.has_layers
                THEN [i \in 1..Len(layer_manifest.layers) |->
                        layer_manifest.layers[i].digest]
                ELSE << >>
         IN  here \o LayerDigests(Tail(manifests))

EffectivelyDelete_Always == TRUE

\* line 226
EffectivelyDelete == ~dry_run

DeleteIsFatal_Only401(status) == status = 401

\* lines 232-237
DeleteIsFatal(status) == status = 401 \/ status = 403

\* lines 229-231
DeleteIsSkipped(status) == status = 404

\* lines 182-190
ListIsSkipped_Also403(status) == status = 404 \/ status = 403

ListIsSkipped_Never(status) == FALSE

ListIsSkipped(status) == status = 404
ListIsFatal(status) == status = 401 \/ status = 403

\* headers of a response that carries no link header
NoLink == [has_link |-> FALSE, link |-> << >>]

\* a request and its answer; the headers are read for the probe only
Request(method, target, status) ==
    [method |-> method, target |-> target, status |-> status, headers |-> NoLink]

\* line 169: the probe of a package and the headers of its answer
ProbeRequest(package, headers) ==
    [method |-> "HEAD", target |-> ListUrl(package, 1), status |-> 200,
     headers |-> headers]

\* status of a request that raised instead of being answered
NoResponse == 0 - 2

\* the requests of line 133, one per selected manifest
LayerRequests(package, manifests) ==
    LET selected == SelectSeq(manifests, LAMBDA m :
                        m.has_platform /\ m.architecture \in {"amd64", "arm64"})
    IN  [i \in 1..Len(selected) |->
            Request("GET", <<"manifests", package, selected[i].digest>>, 200)]

\* the URLs a 2xx delete of this run has removed upstream
Deleted == {net[i].target : i \in {j \in 1..Len(net) :
                net[j].method = "DELETE" /\ net[j].status = 204}}

Control_DeleteAfterEachPackage(pkgIdx, pg, queue) ==
    IF pg > 1
    THEN [pc |-> "page", pkg_idx |-> pkgIdx, page |-> pg - 1, del_idx |-> 0]
    ELSE IF EffectivelyDelete /\ queue # << >>
    THEN [pc |-> "delete", pkg_idx |-> pkgIdx, page |-> 0, del_idx |-> 1]
    ELSE IF pkgIdx < Len(packages)
    THEN [pc |-> "head", pkg_idx |-> pkgIdx + 1, page |-> 0, del_idx |-> 0]
    ELSE [pc |-> "report", pkg_idx |-> pkgIdx, page |-> 0, del_idx |-> 0]

Control_HangsBeforeReport(pkgIdx, pg, queue) ==
    IF pg > 1
    THEN [pc |-> "page", pkg_idx |-> pkgIdx, page |-> pg - 1, del_idx |-> 0]
    ELSE IF pkgIdx < Len(packages)
    THEN [pc |-> "head", pkg_idx |-> pkgIdx + 1, page |-> 0, del_idx |-> 0]
    ELSE IF EffectivelyDelete /\ queue # << >>
    THEN [pc |-> "delete", pkg_idx |-> pkgIdx, page |-> 0, del_idx |-> 1]
    ELSE [pc |-> "sleep", pkg_idx |-> pkgIdx, page |-> 0, del_idx |-> 0]

\* control after page pg of package number pkgIdx is finished, with the
\* deletion queue as it is then: the next page (line 172), the next package
\* (line 164), or the execution phase (line 226) and the final print
Control(pkgIdx, pg, queue) ==
    IF pg > 1
    THEN [pc |-> "page", pkg_idx |-> pkgIdx, page |-> pg - 1, del_idx |-> 0]
    ELSE IF pkgIdx < Len(packages)
    THEN [pc |-> "head", pkg_idx |-> pkgIdx + 1, page |-> 0, del_idx |-> 0]
    ELSE IF EffectivelyDelete /\ queue # << >>
    THEN [pc |-> "delete", pkg_idx |-> pkgIdx, page |-> 0, del_idx |-> 1]
    ELSE [pc |-> "report", pkg_idx |-> pkgIdx, page |-> 0, del_idx |-> 0]

Goto(c) ==
    /\ pc' = c.pc
    /\ pkg_idx' = c.pkg_idx
    /\ page' = c.page
    /\ del_idx' = c.del_idx
    /\ candidates' = << >>
    /\ img_idx' = 0

\* sys.exit(1), or an exception nobody catches
Terminate(how) ==
    /\ pc' = how
    /\ exit_code' = 1
    /\ UNCHANGED <<pkg_idx, page, del_idx, candidates, img_idx>>

config == <<env, registry, packages, keep, dry_run>>
harness == <<call_args, call_ret, first_run>>

-----------------------------------------------------------------------------
(* The run *)

Init ==
    /\ env \in RunEnvs
    /\ registry \in Registries
    /\ \A id \in Ids : registry.pages[id] = 0 => registry.tags[id] = << >>
    /\ pc = "start"
    /\ packages = << >>
    /\ keep = 0
    /\ dry_run = TRUE
    /\ urls_to_be_deleted = << >>
    /\ exclusion_list = << >>
    /\ packages_deleted = 0
    /\ pkg_idx = 0
    /\ page = 0
    /\ candidates = << >>
    /\ img_idx = 0
    /\ del_idx = 0
    /\ net = << >>
    /\ exit_code = NoExit
    /\ stdout_count = NoCount
    /\ call_args = << >>
    /\ call_ret = << >>
    /\ first_run = << >>

\* lines 36-48, then the call of delete_packages (line 264)
Startup ==
    /\ pc = "start"
    /\ dry_run' = ParseDryRun(env.INPUT_DRY_RUN)
    /\ IF NoPackagesInput(env.INPUT_PACKAGES)
       THEN /\ Terminate("exit")
            /\ UNCHANGED <<packages, keep>>
       ELSE /\ packages' = ParsePackages(env.INPUT_PACKAGES)
            /\ keep' = ParseKeep(env.INPUT_KEEP)
            /\ pc' = "head"
            /\ pkg_idx' = 1
            /\ UNCHANGED <<page, del_idx, candidates, img_idx, exit_code>>
    /\ UNCHANGED <<env, registry, urls_to_be_deleted, exclusion_list,
                   packages_deleted, net, stdout_count, harness>>

\* lines 164-170: the HEAD probe of a package
Probe ==
    /\ pc = "head"
    /\ LET package == packages[pkg_idx] IN
       \/ \E headers \in ProbeHeaders :
            /\ net' = Append(net, ProbeRequest(package, headers))
            /\ pc' = "page"
            /\ page' = get_last_page(headers)
            /\ UNCHANGED <<pkg_idx, del_idx, candidates, img_idx, exit_code>>
       \/ /\ net' = Append(net, Request("HEAD", ListUrl(package, 1), NoResponse))
          /\ Terminate("crash")
    /\ UNCHANGED <<config, urls_to_be_deleted, exclusion_list,
                   packages_deleted, stdout_count, harness>>

\* lines 172-197: one page is listed, sorted and sliced
ListPage ==
    /\ pc = "page"
    /\ LET package == packages[pkg_idx] IN
       \/ /\ net' = Append(net, Request("GET", ListUrl(package, page), NoResponse))
          /\ Terminate("exit")
       \/ \E status \in {200, 401, 403, 404, 500} :
            /\ net' = Append(net, Request("GET", ListUrl(package, page), status))
            /\ IF ListIsSkipped(status)
               THEN /\ Goto(Control(pkg_idx, page, urls_to_be_deleted))
                    /\ UNCHANGED exit_code
               ELSE IF ListIsFatal(status)
               THEN Terminate("exit")
               ELSE IF status # 200
               THEN \* the body is an error document: line 193 raises TypeError
                    Terminate("crash")
               ELSE \E body \in Orderings(PageIds(page)) :
                    LET images == sorted(body)
                        visit == ImagesToVisit(images, page, keep)
                    IN  /\ IF visit = << >>
                           THEN Goto(Control(pkg_idx, page, urls_to_be_deleted))
                           ELSE /\ pc' = "image"
                                /\ candidates' = visit
                                /\ img_idx' = 1
                                /\ UNCHANGED <<pkg_idx, page, del_idx>>
                        /\ UNCHANGED exit_code
    /\ UNCHANGED <<config, urls_to_be_deleted, exclusion_list,
                   packages_deleted, stdout_count, harness>>

\* control after the visited image: line 197 again, or the page is finished
AfterImage(queue) ==
    IF img_idx < Len(candidates)
    THEN /\ img_idx' = img_idx + 1
         /\ UNCHANGED <<pc, pkg_idx, page, del_idx, candidates>>
    ELSE Goto(Control(pkg_idx, page, queue))

\* lines 198-221, with get_package_layers (lines 97-141) for a skipped image
DecideImage ==
    /\ pc = "image"
    /\ LET package == packages[pkg_idx]
           image == candidates[img_idx]
           url == VersionUrl(package, image.id)
           tag == image.tags[1]
           token == Request("GET", <<"token">>, 200)
       IN  IF SkipTagged(image.tags)
           THEN \/ \E status \in {NoResponse, 401} :
                    \* line 102 raises, or line 106 is false
                    /\ net' = Append(net, Request("GET", <<"token">>, status))
                    /\ IF status = NoResponse
                       THEN Terminate("crash")
                       ELSE AfterImage(urls_to_be_deleted) /\ UNCHANGED exit_code
                    /\ UNCHANGED <<urls_to_be_deleted, exclusion_list>>
                \/ /\ net' = net \o <<token, Request("GET", <<"manifests", package, tag>>, NoResponse)>>
                   /\ Terminate("crash")
                   /\ UNCHANGED <<urls_to_be_deleted, exclusion_list>>
                \/ \E status \in {200, 404} :
                    LET main_manifest == MainManifest(status, ImageIndex(package, tag))
                        index == Request("GET", <<"manifests", package, tag>>, status)
                    IN  IF ~main_manifest.has_manifests
                        THEN \* line 124 raises KeyError
                             /\ net' = net \o <<token, index>>
                             /\ Terminate("crash")
                             /\ UNCHANGED <<urls_to_be_deleted, exclusion_list>>
                        ELSE /\ net' = net \o <<token, index>> \o
                                    LayerRequests(package, main_manifest.manifests)
                             /\ exclusion_list' = exclusion_list \o LayerDigests(main_manifest.manifests)
                             /\ AfterImage(urls_to_be_deleted)
                             /\ UNCHANGED <<urls_to_be_deleted, exit_code>>
           ELSE /\ urls_to_be_deleted' = Append(urls_to_be_deleted, url)
                /\ AfterImage(urls_to_be_deleted')
                /\ UNCHANGED <<exclusion_list, net, exit_code>>
    /\ UNCHANGED <<config, packages_deleted, stdout_count, harness>>

\* lines 227-241: one delete request
Delete ==
    /\ pc = "delete"
    /\ LET url == urls_to_be_deleted[del_idx] IN
       \E status \in (IF url \in Deleted THEN {} ELSE {204}) \cup {404, 401, 403, 500, NoResponse} :
            /\ net' = Append(net, Request("DELETE", url, status))
            /\ IF status = NoResponse
               THEN Terminate("crash") /\ UNCHANGED packages_deleted
               ELSE IF DeleteIsSkipped(status) \/ ~DeleteIsFatal(status)
               THEN /\ packages_deleted' =
                        IF DeleteIsSkipped(status) THEN packages_deleted
                        ELSE packages_deleted + 1
                    /\ IF del_idx < Len(urls_to_be_deleted)
                       THEN del_idx' = del_idx + 1 /\ pc' = pc
                       ELSE del_idx' = 0 /\ pc' = "report"
                    /\ UNCHANGED <<pkg_idx, page, candidates, img_idx, exit_code>>
               ELSE Terminate("exit") /\ UNCHANGED packages_deleted
    /\ UNCHANGED <<config, urls_to_be_deleted, exclusion_list, stdout_count, harness>>

\* line 243, and the normal end of the process
Report ==
    /\ pc = "report"
    /\ stdout_count' = packages_deleted
    /\ pc' = "done"
    /\ exit_code' = 0
    /\ UNCHANGED <<config, urls_to_be_deleted, exclusion_list, packages_deleted,
                   pkg_idx, page, candidates, img_idx, del_idx, net, harness>>

Next == Startup \/ Probe \/ ListPage \/ DecideImage \/ Delete \/ Report

Spec == Init /\ [][Next]_vars

\* the runs followed to their end: a run over two packages gets a registry
\* of at most MaxId - 1 versions
LiveInit ==
    /\ Init
    /\ (/\ ~NoPackagesInput(env.INPUT_PACKAGES)
        /\ Len(ParsePackages(env.INPUT_PACKAGES)) > 1) => registry.pages[MaxId] = 0

\* the process is the only thread and is never suspended for ever: each
\* statement it reaches is executed
SpecLive == LiveInit /\ [][Next]_vars /\ WF_vars(Next)

-----------------------------------------------------------------------------
(* restrict_delete_tags applied on its own to bounded tag lists *)

TAG_1_2 == <<"1", ".", "2">>
TAG_10_20_30 == <<"1", "0", ".", "2", "0", ".", "3", "0">>
TAG_V1_2_3 == <<"v", "1", ".", "2", ".", "3">>
TAG_1_2_3_SNAPSHOT == SEMVER_1_2_3 \o <<"-">> \o SNAPSHOT
TAG_MAIN_SHA == <<"m">> \o DOT_SHA_DOT \o <<"a", "1">>
TAG_LATEST_1 == LATEST \o <<"-", "1">>
TAG_SNAPSHOT_LOWER == <<"s", "n", "a", "p", "s", "h", "o", "t">>

\* tags as a container registry accepts them: [A-Za-z0-9_][A-Za-z0-9_.-]*
TagAlphabet ==
    {LATEST, SEMVER_1_2_3, TAG_10_20_30, TAG_1_2, TAG_V1_2_3,
     TAG_1_2_3_SNAPSHOT, TAG_MAIN_SHA, TAG_LATEST_1, TAG_SNAPSHOT_LOWER}

TagListInputs == UNION {[1..n -> TagAlphabet] : n \in 0..MaxTags}

TagsInit ==
    /\ env = [INPUT_DRY_RUN |-> Absent, INPUT_KEEP |-> Absent,
              INPUT_PACKAGES |-> Absent]
    /\ registry = [tags |-> [id \in Ids |-> << >>], pages |-> [id \in Ids |-> 0]]
    /\ pc = "call"
    /\ packages = << >>
    /\ keep = 0
    /\ dry_run = TRUE
    /\ urls_to_be_deleted = << >>
    /\ exclusion_list = << >>
    /\ packages_deleted = 0
    /\ pkg_idx = 0
    /\ page = 0
    /\ candidates = << >>
    /\ img_idx = 0
    /\ del_idx = 0
    /\ net = << >>
    /\ exit_code = NoExit
    /\ stdout_count = NoCount
    /\ call_args \in TagListInputs
    /\ call_ret = << >>
    /\ first_run = << >>

\* lines 246-260, called with call_args
CallRestrictDeleteTags ==
    /\ pc = "call"
    /\ call_ret' = <<restrict_delete_tags(call_args)>>
    /\ pc' = "returned"
    /\ UNCHANGED <<config, urls_to_be_deleted, exclusion_list, packages_deleted,
                   pkg_idx, page, candidates, img_idx, del_idx, net, exit_code,
                   stdout_count, call_args, first_run>>

TagsNext == CallRestrictDeleteTags

SpecTags == TagsInit /\ [][TagsNext]_vars

-----------------------------------------------------------------------------
(* Start-up applied on its own to a wider set of environments *)

ConfigEnvs ==
    [INPUT_DRY_RUN : {Absent, Present("false"), Present("true"), Present("False"),
                      Present(""), Present("0")},
     INPUT_KEEP : {Absent, Present(<< >>), Present(<<"0">>), Present(<<"1">>),
                   Present(<<"2">>), Present(<<"1", "0">>)},
     INPUT_PACKAGES : {Absent, Present(<< >>), Present(DEMO),
                       Present(DEMO \o COMMA \o LIB)}]

ConfigInit ==
    /\ env \in ConfigEnvs
    /\ registry = [tags |-> [id \in Ids |-> << >>], pages |-> [id \in Ids |-> 0]]
    /\ pc = "start"
    /\ packages = << >>
    /\ keep = 0
    /\ dry_run = TRUE
    /\ urls_to_be_deleted = << >>
    /\ exclusion_list = << >>
    /\ packages_deleted = 0
    /\ pkg_idx = 0
    /\ page = 0
    /\ candidates = << >>
    /\ img_idx = 0
    /\ del_idx = 0
    /\ net = << >>
    /\ exit_code = NoExit
    /\ stdout_count = NoCount
    /\ call_args = << >>
    /\ call_ret = << >>
    /\ first_run = << >>

ConfigNext == Startup

SpecConfig == ConfigInit /\ [][ConfigNext]_vars

-----------------------------------------------------------------------------
(* A run over one package whose oldest version carries any tag list *)

\* package "demo", keep = 0, one page holding versions 2 and 1: version 2 is
\* untagged and retained by the count rule, version 1 is the candidate and
\* carries a tag list over the tag alphabet
CandidateInit ==
    /\ env \in [INPUT_DRY_RUN : {Absent, Present("false")},
                INPUT_KEEP : {Absent},
                INPUT_PACKAGES : {Present(DEMO)}]
    /\ \E tags \in TagListInputs :
        registry = [tags |-> [id \in Ids |-> IF id = 1 THEN tags ELSE << >>],
                    pages |-> [id \in Ids |-> IF id <= 2 THEN 1 ELSE 0]]
    /\ pc = "start"
    /\ packages = << >>
    /\ keep = 0
    /\ dry_run = TRUE
    /\ urls_to_be_deleted = << >>
    /\ exclusion_list = << >>
    /\ packages_deleted = 0
    /\ pkg_idx = 0
    /\ page = 0
    /\ candidates = << >>
    /\ img_idx = 0
    /\ del_idx = 0
    /\ net = << >>
    /\ exit_code = NoExit
    /\ stdout_count = NoCount
    /\ call_args = << >>
    /\ call_ret = << >>
    /\ first_run = << >>

SpecCandidate == CandidateInit /\ [][Next]_vars

-----------------------------------------------------------------------------
(* Two runs over the same upstream that differ in the dry-run input *)

TwinEnvs ==
    [INPUT_DRY_RUN : {Absent, Present("false")},
     INPUT_KEEP : {Absent} \cup {Present(DecimalString(k)) : k \in 1..MaxKeep},
     INPUT_PACKAGES : {Present(DEMO), Present(LIB), Present(LIB \o COMMA \o DEMO)}]

\* a run over two packages gets a registry of at most MaxId - 1 versions
TwinInit ==
    /\ env \in TwinEnvs
    /\ registry \in Registries
    /\ \A id \in Ids : registry.pages[id] = 0 => registry.tags[id] = << >>
    /\ Len(ParsePackages(env.INPUT_PACKAGES)) > 1 => registry.pages[MaxId] = 0
    /\ pc = "start"
    /\ packages = << >>
    /\ keep = 0
    /\ dry_run = TRUE
    /\ urls_to_be_deleted = << >>
    /\ exclusion_list = << >>
    /\ packages_deleted = 0
    /\ pkg_idx = 0
    /\ page = 0
    /\ candidates = << >>
    /\ img_idx = 0
    /\ del_idx = 0
    /\ net = << >>
    /\ exit_code = NoExit
    /\ stdout_count = NoCount
    /\ call_args = << >>
    /\ call_ret = << >>
    /\ first_run = << >>

\* the requests of the decision phase: everything but the deletes of line 229
DecisionRequests == SelectSeq(net, LAMBDA r : r.method # "DELETE")

\* the decision phase came to its end (line 226 was reached)
Decided == pc \in {"delete", "report", "done"} \/ DecisionRequests # net

\* the process has ended, and is started again over the same registry with
\* the other value of INPUT_DRY_RUN (line 36); what it computed is kept
Rerun ==
    /\ first_run = << >>
    /\ pc \in {"done", "exit", "crash"}
    /\ first_run' = <<[dry_run |-> dry_run,
                       urls_to_be_deleted |-> urls_to_be_deleted,
                       exclusion_list |-> exclusion_list,
                       net |-> DecisionRequests,
                       decided |-> Decided]>>
    /\ env' = [env EXCEPT !.INPUT_DRY_RUN =
                    IF @ = Absent THEN Present("false") ELSE Absent]
    /\ pc' = "start"
    /\ packages' = << >>
    /\ keep' = 0
    /\ dry_run' = TRUE
    /\ urls_to_be_deleted' = << >>
    /\ exclusion_list' = << >>
    /\ packages_deleted' = 0
    /\ pkg_idx' = 0
    /\ page' = 0
    /\ candidates' = << >>
    /\ img_idx' = 0
    /\ del_idx' = 0
    /\ net' = << >>
    /\ exit_code' = NoExit
    /\ stdout_count' = NoCount
    /\ UNCHANGED <<registry, call_args, call_ret>>

\* the second run gets the answers the first run got: its listing, token and
\* manifest requests and their answers repeat the first run's, in order
Replay ==
    first_run # << >> =>
        LET again == SelectSeq(net', LAMBDA r : r.method # "DELETE")
            before == first_run[1].net
        IN  /\ Len(again) <= Len(before)
            /\ again = SubSeq(before, 1, Len(again))

TwinNext ==
    \/ Startup /\ Replay
    \/ Probe /\ Replay
    \/ ListPage /\ Replay
    \/ DecideImage /\ Replay
    \/ Delete /\ Replay
    \/ Report /\ Replay
    \/ Rerun

SpecTwin == TwinInit /\ [][TwinNext]_vars

-----------------------------------------------------------------------------
(* Vocabulary of the properties *)

Range(s) == {s[i] : i \in 1..Len(s)}

DeleteRequests == SelectSeq(net, LAMBDA r : r.method = "DELETE")

\* the decision phase has run to its end: every page of every package is decided
DecisionDone == pc \in {"delete", "report", "done"}

\* the version identifiers the registry holds
Existing == {id \in Ids : registry.pages[id] # 0}

\* the layer digests of the amd64/arm64 manifests of a package's tagged image
ImageLayers(package, tag) == Range(LayerDigests(ImageIndex(package, tag).manifests))

\* all token and manifest requests so far were answered with 200
GhcrAllOk ==
    \A i \in 1..Len(net) :
        net[i].target[1] \in {"token", "manifests"} => net[i].status = 200

\* the listing requests issued so far, in order
ListRequests ==
    SelectSeq(net, LAMBDA r : r.method = "GET" /\ r.target[1] = "versions?page")

\* the end-to-end scenario: package "demo", keep = 0, and a single page,
\* listed successfully, with versions 3, 2, 1 tagged ["latest"], [], ["1.2.3"]
Scenario ==
    /\ packages = <<DEMO>>
    /\ keep = 0
    /\ registry.pages = [id \in Ids |-> IF id <= 3 THEN 1 ELSE 0]
    /\ registry.tags = [id \in Ids |->
            IF id = 3 THEN <<LATEST>>
            ELSE IF id = 1 THEN <<SEMVER_1_2_3>> ELSE << >>]
    /\ ListRequests = <<Request("GET", ListUrl(DEMO, 1), 200)>>

-----------------------------------------------------------------------------
(* C1 *)

\* C1: in dry-run mode no delete request is ever issued, whatever the
\* packages, pages, keep value and number of queued candidates.
C1_DryRunNoDelete == dry_run => DeleteRequests = << >>

C1_Witness ==
    /\ dry_run
    /\ pc = "done"
    /\ Len(urls_to_be_deleted) >= 2
    /\ DeleteRequests = << >>

(* C2 *)

\* C2: no version whose tag list satisfies the tag-classification rule is
\* ever in the deletion queue.
C2_ProtectedNeverEnqueued ==
    \A i \in 1..Len(urls_to_be_deleted) :
        ~restrict_delete_tags(registry.tags[urls_to_be_deleted[i][3]])

\* a tag-protected version was visited (its layers were recorded) and others
\* were enqueued around it
C2_Witness ==
    /\ pc = "done"
    /\ exclusion_list # << >>
    /\ urls_to_be_deleted # << >>
    /\ \E id \in Existing :
        /\ restrict_delete_tags(registry.tags[id])
        /\ registry.pages[id] = 2
        /\ \A i \in 1..Len(urls_to_be_deleted) : urls_to_be_deleted[i][3] # id

(* C3 *)

\* C3: the deletion queue never contains the same deletion URL twice.
C3_NoUrlTwice ==
    \A i, j \in 1..Len(urls_to_be_deleted) :
        i # j => urls_to_be_deleted[i] # urls_to_be_deleted[j]

(* C4 *)

C5_OnlyUntaggedEnqueued ==
    (Scenario /\ DecisionDone) => urls_to_be_deleted = <<VersionUrl(DEMO, 2)>>

C5_Witness ==
    /\ Scenario
    /\ pc = "done"
    /\ urls_to_be_deleted = <<VersionUrl(DEMO, 2)>>

(* C6 *)

\* C6: a non-200 answer to the manifest-index request of a tag-protected
\* image does not end the run.
C6_ManifestFailureNonFatal ==
    \A i \in 1..Len(net) :
        (/\ net[i].target[1] = "manifests"
         /\ net[i].status # 200
         /\ net[i].status # NoResponse)
        => ~(i = Len(net) /\ pc \in {"crash", "exit"})

(* C7 *)

\* the k highest identifiers of S
Newest(S, k) == {x \in S : Cardinality({y \in S : y > x}) < k}

\* C7: for every package the keep most recently created versions, over all
\* pages of the package, are never in the deletion queue.
C7_NewestKept ==
    \A i \in 1..Len(packages) :
        \A id \in Newest(Existing, keep) :
            VersionUrl(packages[i], id) \notin Range(urls_to_be_deleted)

(* C8 *)

IsTriple(tag) ==
    \E a, b \in 1..Len(tag) :
        /\ 1 < a /\ a + 1 < b /\ b < Len(tag)
        /\ tag[a] = "." /\ tag[b] = "."
        /\ \A i \in 1..Len(tag) : i \notin {a, b} => tag[i] \in Digits

Rule(tag) ==
    CASE tag = LATEST -> 1
      [] tag # LATEST /\ In(DOT_SHA_DOT, tag) -> 2
      [] tag # LATEST /\ ~In(DOT_SHA_DOT, tag) /\ In(SNAPSHOT, tag) -> 3
      [] OTHER -> IF IsTriple(tag) THEN 4 ELSE 0

\* the reference: the first tag that matches a rule decides
isProtected(tags) ==
    LET deciding == {i \in 1..Len(tags) : Rule(tags[i]) # 0}
    IN  /\ deciding # {}
        /\ Rule(tags[CHOOSE i \in deciding : \A j \in deciding : i <= j]) \in {1, 4}

C10_DeleteAuthFatal ==
    \A i \in 1..Len(net) :
        (net[i].method = "DELETE" /\ net[i].status \in {401, 403}) =>
            /\ i = Len(net)
            /\ pc = "exit"
            /\ exit_code = 1
            /\ stdout_count = NoCount

\* a 403 after one successful deletion, with a URL still waiting in the queue
C10_Witness ==
    /\ pc = "exit"
    /\ net # << >>
    /\ net[Len(net)].method = "DELETE"
    /\ net[Len(net)].status = 403
    /\ packages_deleted = 1
    /\ Len(DeleteRequests) = 2
    /\ Len(urls_to_be_deleted) = 3

-----------------------------------------------------------------------------
(* C11 *)

IsDelete(r) == r.method = "DELETE"
IsList(r) == r.method = "GET" /\ r.target[1] = "versions?page"
IsProbe(r) == r.method = "HEAD"

\* C11: a delete answered with 404 does not end the run: it is not counted
\* as deleted (the count is the number of deletes answered with a status
\* other than 404, 401 and 403) and the URL after it in the queue gets its
\* delete request next.
C11_Delete404Skipped ==
    /\ packages_deleted =
            Cardinality({i \in 1..Len(net) :
                /\ IsDelete(net[i])
                /\ net[i].status \notin {404, 401, 403, NoResponse}})
    /\ \A k \in 1..Len(DeleteRequests) :
        DeleteRequests[k].status = 404 =>
            IF k < Len(DeleteRequests)
            THEN DeleteRequests[k + 1].target = urls_to_be_deleted[k + 1]
            ELSE /\ exit_code # 1
                 /\ IF k < Len(urls_to_be_deleted)
                    THEN pc = "delete" /\ del_idx = k + 1
                    ELSE pc \in {"report", "done"}

\* a 404 on the first URL, a successful delete of the second, a normal end
C11_Witness ==
    /\ pc = "done"
    /\ Len(urls_to_be_deleted) = 2
    /\ Len(DeleteRequests) = 2
    /\ DeleteRequests[1].status = 404
    /\ DeleteRequests[2].status = 204
    /\ stdout_count = 1

(* C12 *)

\* number of the package (position in packages) a request of net belongs to
PackageNumberAt(i) == Cardinality({j \in 1..i : IsProbe(net[j])})

\* the URLs of the deletion queue that belong to page p of a package
QueuedFromPage(package, p) ==
    {u \in Range(urls_to_be_deleted) : u[2] = package /\ u[3] \in PageIds(p)}

\* C12: a listing answered with 404 does not end the run and enqueues
\* nothing: the walk goes on with the next page of the package, or with
\* the probe of the next package, or with the execution phase; a page that
\* was only ever answered 404 has none of its versions in the queue.
C12_List404Skipped ==
    /\ \A i \in 1..Len(net) :
        (IsList(net[i]) /\ net[i].status = 404) =>
            LET package == net[i].target[2]
                p == net[i].target[3]
                n == PackageNumberAt(i)
            IN  IF i < Len(net)
                THEN /\ p > 1 => /\ IsList(net[i + 1])
                                 /\ net[i + 1].target = ListUrl(package, p - 1)
                     /\ (p = 1 /\ n < Len(packages)) =>
                            /\ IsProbe(net[i + 1])
                            /\ net[i + 1].target = ListUrl(packages[n + 1], 1)
                     /\ (p = 1 /\ n = Len(packages)) => IsDelete(net[i + 1])
                ELSE /\ exit_code # 1
                     /\ p > 1 => pc = "page" /\ page = p - 1 /\ pkg_idx = n
                     /\ (p = 1 /\ n < Len(packages)) => pc = "head" /\ pkg_idx = n + 1
                     /\ (p = 1 /\ n = Len(packages)) => pc \in {"delete", "report", "done"}
    /\ \A n \in 1..Len(packages) : \A p \in PageNumbers :
        (\A i \in 1..Len(net) :
            (IsList(net[i]) /\ net[i].target = ListUrl(packages[n], p)) =>
                net[i].status = 404)
        => QueuedFromPage(packages[n], p) = {}

\* page 2 of "demo" answered 404 although it holds an untagged version, page
\* 1 listed, then "lib" walked and a version of it enqueued
C12_Witness ==
    /\ pc = "done"
    /\ packages = <<DEMO, LIB>>
    /\ \E id \in PageIds(2) : registry.tags[id] = << >>
    /\ \E i \in 1..Len(net) : net[i] = Request("GET", ListUrl(DEMO, 2), 404)
    /\ \E i \in 1..Len(net) : net[i] = Request("GET", ListUrl(DEMO, 1), 200)
    /\ QueuedFromPage(DEMO, 2) = {}
    /\ QueuedFromPage(LIB, 2) # {}

(* C13 *)

\* C13: a listing that raises a network exception or is answered with 401 or
\* 403 is the last request of the run: the process has exited with status 1
\* and no later page or package is listed.
C13_ListFatal ==
    \A i \in 1..Len(net) :
        (IsList(net[i]) /\ net[i].status \in {NoResponse, 401, 403}) =>
            /\ i = Len(net)
            /\ pc = "exit"
            /\ exit_code = 1
            /\ stdout_count = NoCount

\* a 403 on the second package after versions of the first were enqueued
C13_Witness ==
    /\ pc = "exit"
    /\ packages = <<DEMO, LIB>>
    /\ net # << >>
    /\ net[Len(net)] = Request("GET", ListUrl(LIB, 2), 403)
    /\ urls_to_be_deleted # << >>

(* C14 *)

\* C14: with the package list input absent or empty the script exits with
\* status 1 at start-up and never issues a request.
C14_NoPackagesNoNetwork ==
    (env.INPUT_PACKAGES \in {Absent, Present(<< >>)} /\ pc # "start") =>
        /\ pc = "exit"
        /\ exit_code = 1
        /\ net = << >>
        /\ packages = << >>

C14_Witness ==
    /\ env.INPUT_PACKAGES = Present(<< >>)
    /\ pc = "exit"
    /\ exit_code = 1
    /\ net = << >>

-----------------------------------------------------------------------------
(* C16 *)

-----------------------------------------------------------------------------
(* C17 *)

\* page p of the package was listed with a 200 answer
Listed(package, p) ==
    \E i \in 1..Len(net) :
        IsList(net[i]) /\ net[i].target = ListUrl(package, p) /\ net[i].status = 200

\* the identifiers of page p in the queue for the package
QueuedIds(package, p) == {u[3] : u \in QueuedFromPage(package, p)}

\* position of id in the page's list sorted by identifier, descending
Rank(id, p) == 1 + Cardinality({y \in PageIds(p) : y > id})

Unprotected(id) == ~restrict_delete_tags(registry.tags[id])

-----------------------------------------------------------------------------
(* C18 *)

\* the oldest version of page 1
Oldest == CHOOSE id \in PageIds(1) : \A other \in PageIds(1) : id <= other

FirstTagDisqualifies(tags) ==
    tags # << >> /\ (In(DOT_SHA_DOT, tags[1]) \/ In(SNAPSHOT, tags[1]))

-----------------------------------------------------------------------------
(* C19 *)

\* the layer digests the registry holds for the amd64 and arm64 manifests of
\* a package's tagged image
PlatformLayers(package, tag) ==
    UNION {LET layer_manifest == LayerManifest(ManifestDigest(package, tag, arch))
           IN  {layer_manifest.layers[k].digest : k \in 1..Len(layer_manifest.layers)}
           : arch \in {"amd64", "arm64"}}

\* the execution phase has begun: the first delete request is next or was sent
ExecutionBegun == pc = "delete" \/ DeleteRequests # << >>

\* the count rule makes version id of page p a candidate
Candidate(id, p) ==
    /\ Cardinality(PageIds(p)) > keep
    /\ p = 1 => Rank(id, p) > keep + 1

-----------------------------------------------------------------------------
(* C20 *)

\* the page numbers of the listing requests sent for package number n
PagesListed(n) ==
    {net[i].target[3] : i \in {j \in 1..Len(net) : IsList(net[j]) /\ PackageNumberAt(j) = n}}

\* when the execution phase begins every package was probed and had its
\* pages listed down to page 1, and no other request follows a delete
DecisionsComplete ==
    /\ \A i, j \in 1..Len(net) : (IsDelete(net[i]) /\ ~IsDelete(net[j])) => j < i
    /\ Cardinality({i \in 1..Len(net) : IsProbe(net[i])}) = Len(packages)
    /\ \A n \in 1..Len(packages) :
        \E last \in PageNumbers : PagesListed(n) = 1..last
    /\ pc = "delete" => img_idx = Len(candidates)

\* the delete requests follow the queue, entry by entry
DeletesFollowQueue ==
    /\ Len(DeleteRequests) <= Len(urls_to_be_deleted)
    /\ \A k \in 1..Len(DeleteRequests) :
        DeleteRequests[k].target = urls_to_be_deleted[k]

\* C20: no delete request is issued before every page of every package was
\* listed and decided; the delete requests are issued for the queue entries
\* in queue order, at most one per entry; the queue does not change once the
\* execution phase has begun.
C20_TwoPhases ==
    /\ [](ExecutionBegun => (DecisionsComplete /\ DeletesFollowQueue))
    /\ [][ExecutionBegun => urls_to_be_deleted' = urls_to_be_deleted]_vars

\* two packages decided, then two deletes in queue order
C20_Witness ==
    /\ Len(packages) = 2
    /\ Len(urls_to_be_deleted) >= 3
    /\ Len(DeleteRequests) = 2
    /\ urls_to_be_deleted[1][2] # urls_to_be_deleted[3][2]
    /\ DecisionsComplete
    /\ DeletesFollowQueue

-----------------------------------------------------------------------------
(* C15 *)

\* C15: a run that gets the configuration and the listing, token and
\* manifest answers of an earlier run, with the other dry-run setting, ends
\* its decision phase having sent the same requests and computed the same
\* deletion queue, in the same order, and the same exclusion list, and it
\* reaches the execution phase exactly if the earlier run did; delete
\* requests are sent only by the run that is not a dry run.
C15_SameDecisions ==
    (first_run # << >> /\ pc \in {"delete", "report", "done", "exit", "crash"}) =>
        LET first == first_run[1]
        IN  /\ dry_run # first.dry_run
            /\ DecisionRequests = first.net
            /\ urls_to_be_deleted = first.urls_to_be_deleted
            /\ exclusion_list = first.exclusion_list
            /\ Decided = first.decided
            /\ DeleteRequests # << >> => ~dry_run

\* a dry run, then a live run that deletes what the dry run had queued,
\* after both put the same layer digests in the exclusion list
C15_Witness ==
    /\ first_run # << >>
    /\ first_run[1].dry_run
    /\ pc = "done"
    /\ first_run[1].urls_to_be_deleted # << >>
    /\ urls_to_be_deleted = first_run[1].urls_to_be_deleted
    /\ first_run[1].exclusion_list # << >>
    /\ exclusion_list = first_run[1].exclusion_list
    /\ Len(DeleteRequests) = Len(urls_to_be_deleted)

-----------------------------------------------------------------------------
(* C21 *)

\* the page count a probe answer announces: the page of its first
\* rel="last" link, 1 without link header or without such a link
AnnouncedPages(headers) ==
    IF headers.has_link /\ \E i \in 1..Len(headers.link) : headers.link[i].rel = "last"
    THEN LET first == CHOOSE i \in 1..Len(headers.link) :
                        /\ headers.link[i].rel = "last"
                        /\ \A j \in 1..(i - 1) : headers.link[j].rel # "last"
         IN  headers.link[first].page
    ELSE 1

\* positions in the request log of the listing requests of package number n
ListPositions(n) == {j \in 1..Len(net) : IsList(net[j]) /\ PackageNumberAt(j) = n}

\* the walk of package number n is over
WalkOver(n) ==
    \/ PackageNumberAt(Len(net)) > n
    \/ pc \in {"image", "delete", "report", "done"} /\ page = 1 /\ pkg_idx = n
    \/ DecisionDone
    \/ DeleteRequests # << >>

\* C21: the n-th probe is for the n-th configured package; the listing
\* requests that follow it are for that package and for the pages P, P-1,
\* ... in this order, one request per page, where P is the page count its
\* answer announces; unless the run ended on a fatal condition the walk
\* reaches page 1.
C21_PaginationWalk ==
    \A i \in 1..Len(net) :
        (IsProbe(net[i]) /\ net[i].status = 200) =>
            LET n == PackageNumberAt(i)
                P == AnnouncedPages(net[i].headers)
                positions == ListPositions(n)
            IN  /\ net[i].target = ListUrl(packages[n], 1)
                /\ Cardinality(positions) <= P
                /\ \A j \in positions :
                    net[j].target = ListUrl(packages[n],
                        P - Cardinality({k \in positions : k < j}))
                /\ (WalkOver(n) /\ pc \notin {"exit", "crash"}) =>
                        Cardinality(positions) = P

\* two packages, each announced with two pages and each walked 2, 1
C21_Witness ==
    /\ pc = "done"
    /\ Len(packages) = 2
    /\ ListRequests = <<Request("GET", ListUrl(packages[1], 2), 200),
                        Request("GET", ListUrl(packages[1], 1), 200),
                        Request("GET", ListUrl(packages[2], 2), 404),
                        Request("GET", ListUrl(packages[2], 1), 200)>>
    /\ \A i \in 1..Len(net) : IsProbe(net[i]) => AnnouncedPages(net[i].headers) = 2

-----------------------------------------------------------------------------
(* C22 *)

\* the digests that tag-protected candidates of listed pages can contribute
ProtectedCandidateLayers ==
    UNION {PlatformLayers(packages[n], registry.tags[id][1]) :
            <<n, id>> \in {x \in (1..Len(packages)) \X Existing :
                /\ Listed(packages[x[1]], registry.pages[x[2]])
                /\ Candidate(x[2], registry.pages[x[2]])
                /\ restrict_delete_tags(registry.tags[x[2]])}}

\* the digests reachable from the tags of the versions in the queue
EnqueuedLayers ==
    UNION {UNION {PlatformLayers(u[2], registry.tags[u[3]][t]) :
                    t \in 1..Len(registry.tags[u[3]])} :
            u \in Range(urls_to_be_deleted)}

-----------------------------------------------------------------------------
(* C23 *)

\* a listing raised a network exception or was answered with 401 or 403
ListingFailed ==
    \E i \in 1..Len(net) : IsList(net[i]) /\ net[i].status \in {NoResponse, 401, 403}

\* C23: in a run in which a listing raised a network exception or was
\* answered with 401 or 403, no delete request is ever issued, whatever the
\* dry-run setting and whatever the queue holds by then.
C23_AllOrNothing == ListingFailed => DeleteRequests = << >>

\* a live run with two versions queued from page 2 fails on page 1
C23_Witness ==
    /\ ~dry_run
    /\ ListingFailed
    /\ pc = "exit"
    /\ Len(urls_to_be_deleted) = 2
    /\ Len(ListRequests) = 2
    /\ ListRequests[1].status = 200
    /\ ListRequests[2].target[3] = 1
    /\ DeleteRequests = << >>

-----------------------------------------------------------------------------
(* C24 *)

\* C24: when the run ends normally the printed count is the number of
\* delete requests answered with a status other than 404; it is 0 for a
\* dry run and never more than the length of the deletion queue.
C24_ReportedCount ==
    pc = "done" =>
        /\ stdout_count =
                Cardinality({i \in 1..Len(net) : IsDelete(net[i]) /\ net[i].status # 404})
        /\ dry_run => stdout_count = 0
        /\ stdout_count <= Len(urls_to_be_deleted)

\* three deletes answered 204, 404 and 500: the count printed is 2
C24_Witness ==
    /\ pc = "done"
    /\ Len(DeleteRequests) = 3
    /\ DeleteRequests[1].status = 204
    /\ DeleteRequests[2].status = 404
    /\ DeleteRequests[3].status = 500
    /\ stdout_count = 2

-----------------------------------------------------------------------------
(* C25 *)

Terminated == pc \in {"done", "exit", "crash"}

\* the process ended normally after printing the count, or with status 1
EndIsCoherent ==
    /\ pc = "done" => (exit_code = 0 /\ stdout_count # NoCount)
    /\ pc \in {"exit", "crash"} => (exit_code = 1 /\ stdout_count = NoCount)
    /\ ~Terminated => exit_code = NoExit

\* no page is listed twice in the walk of a package, and the n-th delete
\* request is for the n-th queue entry
NothingTwice ==
    /\ \A i, j \in 1..Len(net) :
        (/\ IsList(net[i]) /\ IsList(net[j])
         /\ PackageNumberAt(i) = PackageNumberAt(j)
         /\ net[i].target = net[j].target) => i = j
    /\ Cardinality({i \in 1..Len(net) : IsProbe(net[i])}) <= Len(packages)
    /\ DeletesFollowQueue

\* C25: every run ends, either normally with exit status 0 after the count
\* was printed or with a non-zero exit status; no page is listed twice for a
\* package and no queue entry gets a second delete request.
C25_Terminates ==
    /\ <>Terminated
    /\ [](EndIsCoherent /\ NothingTwice)

\* a live run over two packages and two pages each that ended normally
C25_Witness ==
    /\ pc = "done"
    /\ exit_code = 0
    /\ Len(packages) = 2
    /\ Len(ListRequests) = 4
    /\ Len(DeleteRequests) = Len(urls_to_be_deleted)
    /\ Len(DeleteRequests) >= 2

====
